---- MODULE Spec2Model ----
(***************************************************************************)
(* Model of tmap's permutation codec (tmap/permutation.py, Permutation),   *)
(* its tree container (tmap/tree.py) and the tree-symmetry                 *)
(* canonicalization engine (tmap/permutation.py, TreePermutation).         *)
(*                                                                         *)
(* Python lists are modelled as sequences.  Positions stored by the        *)
(* program (child indexes in grouped_children, the argument of swap, the   *)
(* result of which) keep their 0-based values; position i of a Python list *)
(* is element i + 1 of the sequence.                                       *)
(*                                                                         *)
(* A Tree node is a record [children, permutation_index, grouped_children]:*)
(* children is the list of owned child nodes, the other two fields are the *)
(* attributes TreePermutation attaches to nodes.  A node is addressed by   *)
(* its position below its parent, and moving a node in its parent's        *)
(* children list moves the whole record, as it moves the object in Python. *)
(***************************************************************************)
EXTENDS Integers, Sequences, FiniteSets, TLC

VARIABLES
    tree,       \* TreePermutation.tree: the root node
    elements,   \* Permutation.elements
    max_id,     \* Permutation.max_id
    last,       \* name of the last operation applied to the object
    arg_n,      \* argument n of the last operation, None if it takes none
    arg_id,     \* argument id of the last operation, None if it takes none
    it_id,      \* canonical enumerator: next identifier to try
    yielded,    \* nodes or permutations an iterator has yielded so far
    operand,    \* second permutation of the last operation: operand or result
    arg,        \* other argument of the last operation
    node_parent,   \* Tree.parent of every node object
    node_children, \* Tree.children of every node object
    this,       \* the node the last Tree operation was called on
    returned,   \* what the last Tree operation returned
    current,    \* TreeIterator.current
    visit,      \* the visit attribute ScatterTreeIterator gives to nodes
    steps,      \* number of Tree operations applied since construction,
                \* or of calls of TreeIterator.reset()
    pass_start, \* number of nodes the TreeIterator had yielded when
                \* reset() was last called, 0 when it never was
    lists,      \* the list objects: the elements each of them holds
    refs        \* the list object the caller's list l and the elements
                \* attribute of the Permutations p and q refer to

\* The variables of a Permutation or TreePermutation and of its enumerator.
perm == <<tree, elements, max_id, arg_n, arg_id, it_id, operand>>

\* The variables of the node objects and of the iterators over them.
heap == <<node_parent, node_children, this, returned, current, visit,
          steps, pass_start>>

\* The variables of the list objects Permutations may share.
alias == <<lists, refs>>

vars == <<tree, elements, max_id, last, arg_n, arg_id, it_id, yielded,
          operand, arg, node_parent, node_children, this, returned,
          current, visit, steps, pass_start, lists, refs>>

\* Largest n of Permutation(n, id) explored.
MaxN == 4
\* Trees explored have at most MaxNodes nodes and at most MaxLeaves leaves.
MaxNodes == 5
MaxLeaves == 3
\* Largest length of the operands of + explored.
MaxAddN == 3
\* The trees Tree operations are applied to have at most MaxTreeNodes nodes.
MaxTreeNodes == 4
\* Longest sequence of Tree operations explored.
MaxOps == 1
\* Longest argument of Tree.swap explored.
MaxIndexLen == 3
\* Largest number of arguments, or of elements of the list argument, of
\* connect_children explored.
MaxArgs == 3
\* Longest list given to the Permutation constructor; its elements are
\* between -1 and MaxListLen.
MaxListLen == 3
\* Identifiers explored lie at most MaxIdExcess outside 0..n!-1.
MaxIdExcess == 2
\* Largest number of calls of TreeIterator.reset() on one iterator explored.
MaxResets == 1

\* Value of an attribute a node does not have.
NoIndex == -1
NoGroups == <<>>
\* Python's None.
None == -1

\* No list object is followed.
NoLists ==
    /\ lists = <<>>
    /\ refs = [l |-> None, p |-> None, q |-> None]

\* No node object has been built.
NoHeap ==
    /\ node_parent = <<>>
    /\ node_children = <<>>
    /\ this = None
    /\ returned = None
    /\ current = None
    /\ visit = <<>>
    /\ steps = 0
    /\ pass_start = 0

(***************************************************************************)
(* tmap/utils.py                                                           *)
(***************************************************************************)
RECURSIVE factorial(_)
factorial(n) == IF n > 1 THEN n * factorial(n - 1) ELSE 1

\* which(l, lambda x: x == v): 0-based position of the first element of l
\* equal to v, None when there is none.
which(l, v) ==
    IF \E k \in 1..Len(l) : l[k] = v
    THEN (CHOOSE k \in 1..Len(l) : l[k] = v /\ \A m \in 1..(k - 1) : l[m] # v) - 1
    ELSE None

\* order(l) as it would be if it returned 1-based positions.
order_one_based(l) ==
    LET idx == SortSeq([i \in 1..Len(l) |-> i],
                       LAMBDA a, b : l[a] < l[b] \/ (l[a] = l[b] /\ a < b))
    IN  [k \in 1..Len(l) |-> idx[k]]

\* order(l) for a list of integers: the 0-based positions of l sorted by the
\* pairs (value, position).
order(l) ==
    LET idx == SortSeq([i \in 1..Len(l) |-> i],
                       LAMBDA a, b : l[a] < l[b] \/ (l[a] = l[b] /\ a < b))
    IN  [k \in 1..Len(l) |-> idx[k] - 1]

\* isindex(l) as it would be if it checked that every element of l is in
\* range(len(l)) instead.
isindex_in_range(l) == \A k \in 1..Len(l) : l[k] \in 0..(Len(l) - 1)

\* isindex(l): every i of range(len(l)) is in l.
isindex(l) == \A i \in 0..(Len(l) - 1) : \E k \in 1..Len(l) : l[k] = i

\* range(n) as a list.
range(n) == [i \in 1..n |-> i - 1]

\* sorted(l) for a list of integers.
sorted(l) == SortSeq(l, <)

Min(S) == CHOOSE x \in S : \A y \in S : x <= y

\* All orders of the list l: the outcomes of random.shuffle(l).
shuffle(l) == { [i \in 1..Len(l) |-> l[f[i]]] : f \in Permutations(1..Len(l)) }

(***************************************************************************)
(* tmap/permutation.py: Permutation                                        *)
(***************************************************************************)
\* The while loop of Permutation.__init__(n: int, id).
RECURSIVE init_loop(_, _, _)
init_loop(id, slots, elems) ==
    IF id > 0 /\ Len(slots) > 0
    THEN LET s == id % Len(slots)
             e == slots[s + 1]
         IN  init_loop((id - s) \div Len(slots),
                       SelectSeq(slots, LAMBDA x : x # e),
                       Append(elems, e))
    ELSE elems \o slots

\* The while loop as it would be if the constructor forgot the remaining
\* slots (self.elements = elements).
RECURSIVE init_loop_without_slots(_, _, _)
init_loop_without_slots(id, slots, elems) ==
    IF id > 0 /\ Len(slots) > 0
    THEN LET s == id % Len(slots)
             e == slots[s + 1]
         IN  init_loop_without_slots((id - s) \div Len(slots),
                                     SelectSeq(slots, LAMBDA x : x # e),
                                     Append(elems, e))
    ELSE elems

PermutationInit_without_slots(n, id) ==
    init_loop_without_slots(id % factorial(n), range(n), <<>>)

\* Permutation(n, id).elements for an int n.
PermutationInit(n, id) == init_loop(id % factorial(n), range(n), <<>>)

\* The for loop of Permutation.id().
RECURSIVE id_loop(_, _, _, _, _)
id_loop(self, i, elems, ret, mul) ==
    IF i > Len(self)
    THEN ret
    ELSE LET j == which(elems, self[i])
         IN  id_loop(self, i + 1,
                     SubSeq(elems, 1, j) \o SubSeq(elems, j + 2, Len(elems)),
                     ret + mul * j,
                     mul * Len(elems))

\* The for loop of Permutation.id() as it would be with a fixed radix
\* (mul *= len(self.elements)).
RECURSIVE id_loop_fixed_radix(_, _, _, _, _)
id_loop_fixed_radix(self, i, elems, ret, mul) ==
    IF i > Len(self)
    THEN ret
    ELSE LET j == which(elems, self[i])
         IN  id_loop_fixed_radix(self, i + 1,
                     SubSeq(elems, 1, j) \o SubSeq(elems, j + 2, Len(elems)),
                     ret + mul * j,
                     mul * Len(self))

PermutationId_fixed_radix(self) ==
    id_loop_fixed_radix(self, 1, range(Len(self)), 0, 1)

\* Permutation.id() of the permutation with elements self.
PermutationId(self) == id_loop(self, 1, range(Len(self)), 0, 1)

\* a + p as it would be if + were the composition of the two mappings.
add_composition(self, p) == [i \in 1..Len(self) |-> self[p[i] + 1]]

\* Permutation.__add__(p) for operands of the same length: the elements of
\* the permutation returned.
add(self, p) ==
    LET id_max == factorial(Len(p))
        new_id == (PermutationId(self) + PermutationId(p)) % id_max
    IN  PermutationInit(Len(self), new_id)

\* Permutation.inverse() as it would be if it returned the copy as it is.
inverse_without_order(self) == self

\* Permutation.inverse(): the elements of the permutation returned.
inverse(self) == order(self)

(***************************************************************************)
(* tmap/tree.py: Tree, Tleaf, TreeIterator                                 *)
(***************************************************************************)
\* Tree(): a node with no child and no attribute.
Tree == [children |-> <<>>, permutation_index |-> NoIndex,
         grouped_children |-> NoGroups]

\* Tree.connect_children(kids) on a node under construction.
connect_children(self, kids) == [self EXCEPT !.children = self.children \o kids]

\* Tree.from_list(l) for a nested list l of lists.
RECURSIVE from_list(_)
from_list(l) ==
    LET kids == [i \in 1..Len(l) |-> from_list(l[i])]
    IN  IF Len(kids) > 0 THEN connect_children(Tree, kids) ELSE Tree

\* Tree.from_list(k) for an int k: a node with k leaves as children.
from_list_int(k) ==
    LET kids == [i \in 1..k |-> Tree]
    IN  IF Len(kids) > 0 THEN connect_children(Tree, kids) ELSE Tree

\* Tree.from_list(l) for a list l of ints.
from_list_ints(l) ==
    LET kids == [i \in 1..Len(l) |-> from_list_int(l[i])]
    IN  IF Len(kids) > 0 THEN connect_children(Tree, kids) ELSE Tree

\* Tleaf(arities): every node at the same depth has the same arity.
RECURSIVE Tleaf(_)
Tleaf(arities) ==
    IF Len(arities) > 1
    THEN connect_children(Tree, [i \in 1..arities[1] |-> Tleaf(Tail(arities))])
    ELSE IF Len(arities) = 1
         THEN connect_children(Tree, [i \in 1..arities[1] |-> Tleaf(<<>>)])
         ELSE Tree

is_leaf(self) == Len(self.children) = 0

arity(self) == Len(self.children)

\* hasattr(n, 'grouped_children')
has_grouped_children(n) == n.grouped_children # NoGroups

\* The nodes TreeIterator(tree) yields, in the order it yields them: the
\* walk starts at the leftmost deepest leaf, moves to the next sibling's
\* leftmost deepest leaf, and to the parent after the last sibling; it
\* stops after tree itself.
RECURSIVE TreeIterator(_)
RECURSIVE iterate_children(_, _)
iterate_children(kids, i) ==
    IF i > Len(kids) THEN <<>>
    ELSE TreeIterator(kids[i]) \o iterate_children(kids, i + 1)
TreeIterator(t) == iterate_children(t.children, 1) \o <<t>>

\* TreeIterator(tree, lambda n: n.is_leaf())
LeafIterator(t) == SelectSeq(TreeIterator(t), is_leaf)

\* TreeIterator(...).count()
count(it) == Len(it)

\* Tree.is_equal(other): zip stops at the end of the shorter walk.
is_equal(self, other) ==
    LET a == TreeIterator(self)
        b == TreeIterator(other)
        n == IF Len(a) < Len(b) THEN Len(a) ELSE Len(b)
    IN  \A k \in 1..n : arity(a[k]) = arity(b[k])

\* Whether l[i] is an element of the Python list l: i counts from the
\* start when it is not negative and from the end when it is; any other i
\* raises IndexError.
in_list(l, i) == (0 - Len(l)) <= i /\ i < Len(l)

\* The place of l[i] in the Python list l, for i in_list.
place(l, i) == IF i < 0 THEN Len(l) + i + 1 ELSE i + 1

\* The assignment loop of Tree.swap.
RECURSIVE swap_loop(_, _, _, _)
swap_loop(children, moved, places, k) ==
    IF k > Len(places) THEN children
    ELSE swap_loop([children EXCEPT ![place(children, places[k])] = moved[k]],
                   moved, places, k + 1)

\* Tree.swap(index): the node after the call.
swap(self, index) ==
    [self EXCEPT !.children =
        swap_loop(self.children,
                  [k \in 1..Len(index) |->
                      self.children[place(self.children, index[k])]],
                  sorted(index), 1)]

(***************************************************************************)
(* tmap/permutation.py: TreePermutation                                    *)
(***************************************************************************)
\* First loop of _tag_, zip(self.elements, TreeIterator(tree, is_leaf)): the
\* walk below node takes the next of es at every leaf.  The result is the
\* pair of the node after the loop and the elements not yet taken.
RECURSIVE tag_leaves(_, _)
RECURSIVE tag_leaves_children(_, _, _)
tag_leaves_children(kids, i, es) ==
    IF i > Len(kids) THEN <<<<>>, es>>
    ELSE LET first == tag_leaves(kids[i], es)
             rest == tag_leaves_children(kids, i + 1, first[2])
         IN  <<<<first[1]>> \o rest[1], rest[2]>>
tag_leaves(node, es) ==
    IF is_leaf(node)
    THEN IF Len(es) > 0
         THEN <<[node EXCEPT !.permutation_index = Head(es)], Tail(es)>>
         ELSE <<node, es>>
    ELSE LET done == tag_leaves_children(node.children, 1, es)
         IN  <<[node EXCEPT !.children = done[1]], done[2]>>

\* The loop of _tag_nodes_ that keeps one child per class of is_equal.
RECURSIVE distinct_subtrees(_, _, _)
distinct_subtrees(kids, i, subtrees) ==
    IF i > Len(kids) THEN subtrees
    ELSE distinct_subtrees(kids, i + 1,
            IF \E k \in 1..Len(subtrees) : is_equal(kids[i], subtrees[k])
            THEN subtrees ELSE Append(subtrees, kids[i]))

\* l restricted to the positions selected by keep, a list of booleans.
RECURSIVE filter_positions(_, _, _)
filter_positions(l, keep, i) ==
    IF i > Len(l) THEN <<>>
    ELSE (IF keep[i] THEN <<l[i]>> ELSE <<>>) \o filter_positions(l, keep, i + 1)

\* The grouped_children _tag_nodes_ computes for a node with children kids.
group_children(kids) ==
    LET subtrees == distinct_subtrees(kids, 1, <<>>)
    IN  [k \in 1..Len(subtrees) |->
            filter_positions(range(Len(kids)),
                             [i \in 1..Len(kids) |-> is_equal(kids[i], subtrees[k])],
                             1)]

\* _tag_nodes_ as it would be if a node took the index of its first child
\* instead of the smallest.
RECURSIVE tag_nodes_first_child(_)
tag_nodes_first_child(node) ==
    IF is_leaf(node) THEN node
    ELSE LET kids == [i \in 1..Len(node.children) |->
                         tag_nodes_first_child(node.children[i])]
         IN  [children |-> kids,
              permutation_index |-> kids[1].permutation_index,
              grouped_children |-> group_children(kids)]

\* TreePermutation._tag_nodes_(node): the node after the call.
RECURSIVE tag_nodes(_)
tag_nodes(node) ==
    IF is_leaf(node) THEN node
    ELSE LET kids == [i \in 1..Len(node.children) |-> tag_nodes(node.children[i])]
         IN  [children |-> kids,
              permutation_index |->
                  Min({kids[i].permutation_index : i \in 1..Len(kids)}),
              grouped_children |-> group_children(kids)]

\* _tag_ as it would be without its first loop.
tag_nodes_only(t, es) == tag_nodes(t)

\* TreePermutation._tag_(): the tree after the call.
tag(t, es) == tag_nodes(tag_leaves(t, es)[1])

\* TreePermutation._update_elements_(): the new elements.
update_elements(t) ==
    LET leaves == LeafIterator(t)
    IN  [k \in 1..Len(leaves) |-> leaves[k].permutation_index]

\* sorted([(n.children[i].permutation_index, i) for i in g]), then the
\* second components.
sorted_group(n, g) ==
    SortSeq(g, LAMBDA i, j :
        \/ n.children[i + 1].permutation_index < n.children[j + 1].permutation_index
        \/ /\ n.children[i + 1].permutation_index = n.children[j + 1].permutation_index
           /\ i < j)

\* The inner loop of canonical() on node n, from group k on.
RECURSIVE canonical_groups(_, _)
canonical_groups(n, k) ==
    IF k > Len(n.grouped_children) THEN n
    ELSE canonical_groups(swap(n, sorted_group(n, n.grouped_children[k])), k + 1)

\* The outer loop of canonical(): the nodes are visited children first and
\* a swap changes the children list of the visited node only.
RECURSIVE canonical_nodes(_)
canonical_nodes(n) ==
    LET m == [n EXCEPT !.children =
                 [i \in 1..Len(n.children) |-> canonical_nodes(n.children[i])]]
    IN  IF has_grouped_children(m) THEN canonical_groups(m, 1) ELSE m

\* Whether one group of node n is ordered, as is_canonical checks it.
group_is_ordered(n, group) ==
    LET index == filter_positions(
                     [p \in 1..Len(n.children) |-> n.children[p].permutation_index],
                     [p \in 1..Len(n.children) |->
                         \E k \in 1..Len(group) : group[k] = p - 1],
                     1)
    IN  \A k \in 1..(Len(index) - 1) : ~(index[k + 1] < index[k])

\* is_canonical() as it would be if it checked the root only.
is_canonical_root_only(t) ==
    has_grouped_children(t) =>
        \A g \in 1..Len(t.grouped_children) :
            group_is_ordered(t, t.grouped_children[g])

\* TreePermutation.is_canonical()
is_canonical(t) ==
    LET nodes == TreeIterator(t)
    IN  \A k \in 1..Len(nodes) :
            has_grouped_children(nodes[k]) =>
                \A g \in 1..Len(nodes[k].grouped_children) :
                    group_is_ordered(nodes[k], nodes[k].grouped_children[g])

\* The inner loop of shuffle_nodes() from group k on, for every node of ns
\* (the same node after different random draws): shuffle(g) draws an order
\* of the stored list g, which keeps it, and swap(g) reorders the children
\* by it.
RECURSIVE shuffle_groups(_, _, _)
shuffle_groups(ns, k, ngroups) ==
    IF k > ngroups THEN ns
    ELSE shuffle_groups(
            UNION { { swap([n EXCEPT !.grouped_children[k] = g], g) :
                          g \in shuffle(n.grouped_children[k]) } : n \in ns },
            k + 1, ngroups)

\* The outer loop of shuffle_nodes(): every tree the call can leave, one
\* per outcome of the random draws.  The walk visits the internal nodes
\* children first.
RECURSIVE shuffle_nodes_tree(_)
RECURSIVE shuffle_nodes_children(_, _)
shuffle_nodes_children(kids, i) ==
    IF i > Len(kids) THEN {<<>>}
    ELSE { <<c>> \o rest : c \in shuffle_nodes_tree(kids[i]),
                           rest \in shuffle_nodes_children(kids, i + 1) }
shuffle_nodes_tree(n) ==
    IF is_leaf(n) THEN {n}
    ELSE shuffle_groups(
            { [n EXCEPT !.children = cs] : cs \in shuffle_nodes_children(n.children, 1) },
            1, Len(n.grouped_children))

(***************************************************************************)
(* The trees explored, as the nested lists Tree.from_list takes (a node is *)
(* the list of its children, a leaf the empty list).                       *)
(***************************************************************************)
\* The lists of trees with m nodes in total.
RECURSIVE Forests(_)
Forests(m) ==
    IF m = 0 THEN {<<>>}
    ELSE UNION { { <<t>> \o f : t \in Forests(k - 1), f \in Forests(m - k) } :
                 k \in 1..m }

\* Every ordered rooted tree with at most nodes nodes and leaves leaves.
TreeListsOf(nodes, leaves) ==
    { l \in UNION { Forests(n - 1) : n \in 1..nodes } :
          count(LeafIterator(from_list(l))) <= leaves }

\* The trees of the specification SpecTP.
Trees == { from_list(l) : l \in TreeListsOf(MaxNodes, MaxLeaves) }

\* The lists of at most n ints, each in lo..hi.
RECURSIVE IntListsBetween(_, _, _)
IntListsBetween(n, lo, hi) ==
    IF n = 0 THEN {<<>>}
    ELSE IntListsBetween(n - 1, lo, hi) \cup
         { Append(l, k) :
               l \in { x \in IntListsBetween(n - 1, lo, hi) : Len(x) = n - 1 },
               k \in lo..hi }

\* The lists of at most n ints, each in 0..m.
RECURSIVE IntLists(_, _)
IntLists(n, m) ==
    IF n = 0 THEN {<<>>}
    ELSE IntLists(n - 1, m) \cup
         { Append(l, k) : l \in { x \in IntLists(n - 1, m) : Len(x) = n - 1 },
                          k \in 0..m }

\* The trees of the specifications SpecTPInts and SpecCPI: a root with at
\* most MaxLeaves children, each a leaf or a node with at most MaxLeaves - 1
\* leaves, and at most MaxLeaves + 1 leaves in all.  They include
\* Tleaf([2, 2]) and from_list([1, 0, 2]), the smallest tree with two
\* children of the root that are not is_equal and a third that is_equal to
\* both.
IntTrees ==
    { t \in { from_list_ints(l) : l \in IntLists(MaxLeaves, MaxLeaves - 1) } :
          count(LeafIterator(t)) <= MaxLeaves + 1 }

(***************************************************************************)
(* tmap/tree.py on node objects.  The operations that follow parent        *)
(* references or compare nodes by identity are modelled on a heap h of     *)
(* node objects: object k has the parent h.parent[k] (None or an object)   *)
(* and the children list h.children[k]; objects are numbered in the order  *)
(* they are built.                                                         *)
(***************************************************************************)
EmptyHeap == [parent |-> <<>>, children |-> <<>>]

\* The heap of the current state.
Heap == [parent |-> node_parent, children |-> node_children]

\* The objects of heap h.
Objects(h) == 1..Len(h.parent)

\* Tree(): the heap with one more object, which has no parent and no child.
new_Tree(h) ==
    [parent |-> Append(h.parent, None), children |-> Append(h.children, <<>>)]

\* t.connect_children(kids) for a list kids of objects.
RECURSIVE heap_connect_children(_, _, _)
heap_connect_children(h, t, kids) ==
    IF kids = <<>> THEN h
    ELSE heap_connect_children(
             [parent |-> [h.parent EXCEPT ![Head(kids)] = t],
              children |-> [h.children EXCEPT ![t] = Append(@, Head(kids))]],
             t, Tail(kids))

\* Tree.from_list(l) for a nested list l: the pair of the heap after the call
\* and of the object returned.
RECURSIVE heap_from_list(_, _)
RECURSIVE heap_from_list_kids(_, _, _, _)
heap_from_list_kids(h, l, i, kids) ==
    IF i > Len(l) THEN <<h, kids>>
    ELSE LET r == heap_from_list(h, l[i])
         IN  heap_from_list_kids(r[1], l, i + 1, Append(kids, r[2]))
heap_from_list(h, l) ==
    LET t == Len(h.parent) + 1
        r == heap_from_list_kids(new_Tree(h), l, 1, <<>>)
    IN  IF Len(r[2]) > 0
        THEN <<heap_connect_children(r[1], t, r[2]), t>>
        ELSE <<r[1], t>>

\* n.index(): None + 1 is a TypeError when the parent does not hold n.
node_index(h, n) ==
    IF h.parent[n] = None THEN 0 ELSE which(h.children[h.parent[n]], n)

\* n.coords()
RECURSIVE coords(_, _)
coords(h, n) ==
    IF h.parent[n] = None THEN <<>>
    ELSE Append(coords(h, h.parent[n]), which(h.children[h.parent[n]], n))

\* n.root()
RECURSIVE root(_, _)
root(h, n) == IF h.parent[n] = None THEN n ELSE root(h, h.parent[n])

\* n.get_depth(): the number of parent references between n and the root.
RECURSIVE get_depth(_, _)
get_depth(h, n) ==
    IF h.parent[n] = None THEN 0 ELSE 1 + get_depth(h, h.parent[n])

\* n.first_leaf(), also the while loops of TreeIterator.reset and __next__.
RECURSIVE first_leaf(_, _)
first_leaf(h, n) ==
    IF Len(h.children[n]) = 0 THEN n ELSE first_leaf(h, h.children[n][1])

\* n.last_leaf()
RECURSIVE last_leaf(_, _)
last_leaf(h, n) ==
    IF Len(h.children[n]) = 0 THEN n
    ELSE last_leaf(h, h.children[n][Len(h.children[n])])

\* TreeIterator.reset() as it would be without the descent to the first leaf.
reset_at_tree(h, t) == t

\* TreeIterator.reset(): the new value of current.
reset(h, t) == first_leaf(h, t)

\* TreeIterator.__next__() on the iterator over t with the filter cond (the
\* set of objects that satisfy it): the object returned, the exception
\* raised ("StopIteration", "TypeError", "" when there is none) and the new
\* value of current.
RECURSIVE next(_, _, _, _)
next(h, t, cur, cond) ==
    IF cur = None
    THEN [ret |-> None, raised |-> "StopIteration", current |-> cur]
    ELSE IF node_index(h, cur) = None
    THEN [ret |-> None, raised |-> "TypeError", current |-> cur]
    ELSE LET n == node_index(h, cur) + 1
             nxt == IF h.parent[cur] = None \/ cur = t THEN None
                    ELSE IF n = Len(h.children[h.parent[cur]])
                         THEN h.parent[cur]
                         ELSE first_leaf(h, h.children[h.parent[cur]][n + 1])
         IN  IF cur \in cond THEN [ret |-> cur, raised |-> "", current |-> nxt]
             ELSE next(h, t, nxt, cond)

\* ScatterTreeIterator._visit_node_(node) on the iterator over t, with v the
\* visit attribute of the nodes: the object returned, the exception raised
\* ("" when there is none) and the visit attributes after the call.
RECURSIVE visit_node(_, _, _, _)
visit_node(h, t, v, node) ==
    LET v1 == [v EXCEPT ![node] = @ + 1]
    IN  IF v1[node] < 0
        THEN [ret |-> node, raised |-> "", visit |-> v1]
        ELSE IF v1[node] < Len(h.children[node])
        THEN visit_node(h, t, v1, h.children[node][v1[node] + 1])
        ELSE LET v2 == [v1 EXCEPT ![node] = 0 - 1]
             IN  IF node = last_leaf(h, t)
                 THEN [ret |-> None, raised |-> "StopIteration", visit |-> v2]
                 ELSE visit_node(h, t, v2, t)

\* ScatterTreeIterator.__next__() with the filter cond.
RECURSIVE scatter_next(_, _, _, _)
scatter_next(h, t, v, cond) ==
    LET r == visit_node(h, t, v, t)
    IN  IF r.raised # "" \/ r.ret \in cond THEN r
        ELSE scatter_next(h, t, r.visit, cond)

\* [n for n in t]: the objects the walk of TreeIterator(t) yields from cur
\* on, with the exception that ends it: "" when it ends with StopIteration,
\* "TypeError", or "no end" when the walk comes back to an object of seen,
\* the objects it has been at, and so never ends.
RECURSIVE walk(_, _, _, _)
walk(h, t, cur, seen) ==
    IF cur = None THEN [nodes |-> <<>>, raised |-> ""]
    ELSE IF cur \in seen THEN [nodes |-> <<>>, raised |-> "no end"]
    ELSE LET r == next(h, t, cur, Objects(h))
         IN  IF r.raised # "" THEN [nodes |-> <<>>, raised |-> r.raised]
             ELSE LET rest == walk(h, t, r.current, seen \cup {cur})
                  IN  [nodes |-> <<r.ret>> \o rest.nodes,
                       raised |-> rest.raised]

\* list(TreeIterator(t))
nodes_of(h, t) == walk(h, t, reset(h, t), {})

\* t.swap(index) for positions index within the children of t: the heap after
\* the call.
heap_swap(h, t, index) ==
    [h EXCEPT !.children[t] =
        swap_loop(h.children[t],
                  [k \in 1..Len(index) |->
                      h.children[t][place(h.children[t], index[k])]],
                  sorted(index), 1)]

\* x.remove() as it would be if the children of x kept their parent.
heap_remove_without_parent(h, x) ==
    LET p == h.parent[x]
    IN  IF p = None THEN h
        ELSE [h EXCEPT !.children[p] =
                 SelectSeq(h.children[p], LAMBDA n : n # x) \o h.children[x]]

\* x.remove(): the heap after the call.
heap_remove(h, x) ==
    LET p == h.parent[x]
        kids == h.children[x]
        held == IF p = None THEN h.children
                ELSE [h.children EXCEPT
                         ![p] = SelectSeq(@, LAMBDA n : n # x) \o kids]
    IN  [parent |-> [n \in Objects(h) |->
                        IF \E k \in 1..Len(kids) : kids[k] = n
                        THEN p ELSE h.parent[n]],
         children |-> held]

\* The loop of remove_depth over the list nodes, from its element i on.
RECURSIVE remove_loop(_, _, _)
remove_loop(h, nodes, i) ==
    IF i > Len(nodes) THEN h
    ELSE remove_loop(heap_remove(h, nodes[i]), nodes, i + 1)

\* t.remove_depth(depth): the heap after the call.  The nodes at the depth
\* are listed by a walk of the root before the first of them is removed.
heap_remove_depth(h, t, depth) ==
    LET d == depth + get_depth(h, t)
    IN  IF d <= 0 THEN h
        ELSE remove_loop(h,
                 SelectSeq(nodes_of(h, root(h, t)).nodes,
                           LAMBDA n : get_depth(h, n) = d),
                 1)

\* The loop of prune over the list eliminated, from its element i on.
RECURSIVE prune_loop(_, _, _)
prune_loop(h, eliminated, i) ==
    IF i > Len(eliminated) THEN h
    ELSE LET e == eliminated[i]
             p == h.parent[e]
         IN  prune_loop(
                 IF p = None THEN h
                 ELSE [h EXCEPT !.children[p] = SelectSeq(@, LAMBDA c : c # e)],
                 eliminated, i + 1)

\* The list eliminated of t.prune(cond), for cond the set of objects that
\* satisfy the condition.
eliminated_of(h, t, cond) ==
    SelectSeq(nodes_of(h, t).nodes, LAMBDA n : n \in cond)

\* t.prune(cond) as it would be if it detached the first node found only.
heap_prune_first(h, t, cond) ==
    LET eliminated == eliminated_of(h, t, cond)
    IN  prune_loop(h, IF eliminated = <<>> THEN eliminated
                      ELSE <<eliminated[1]>>, 1)

\* t.prune(cond): the heap after the call.
heap_prune(h, t, cond) == prune_loop(h, eliminated_of(h, t, cond), 1)

(***************************************************************************)
(* Specifications of a TreePermutation object                              *)
(***************************************************************************)
\* TreePermutation(tree_map, n, id) with n the number of leaves of tree_map,
\* for tree_map one of trees.
TPInitOf(trees) ==
    \E tree_map \in trees :
        LET n == count(LeafIterator(tree_map))
        IN  \E id \in 0..(factorial(n) - 1) :
                /\ elements = PermutationInit(n, id)
                /\ max_id = factorial(n)
                /\ tree = tag(tree_map, elements)
                /\ last = "init"
                /\ arg_n = n
                /\ arg_id = id
                /\ it_id = 0
                /\ yielded = <<>>
                /\ operand = <<>>
                /\ arg = None
                /\ NoHeap
                /\ NoLists

TPInit == TPInitOf(Trees)

TPIntsInit == TPInitOf(IntTrees)

\* TreePermutation.canonical()
Canonical ==
    /\ tree' = canonical_nodes(tree)
    /\ elements' = update_elements(tree')
    /\ last' = "canonical"
    /\ arg_n' = None
    /\ arg_id' = None
    /\ arg' = None
    /\ UNCHANGED <<max_id, it_id, yielded, operand, heap, alias>>

\* TreePermutation.shuffle_nodes()
ShuffleNodes ==
    /\ tree' \in shuffle_nodes_tree(tree)
    /\ elements' = update_elements(tree')
    /\ last' = "shuffle_nodes"
    /\ arg_n' = None
    /\ arg_id' = None
    /\ arg' = None
    /\ UNCHANGED <<max_id, it_id, yielded, operand, heap, alias>>

\* TreePermutation.shuffle()
Shuffle ==
    /\ elements' \in shuffle(elements)
    /\ tree' = tag(tree, elements')
    /\ last' = "shuffle"
    /\ arg_n' = None
    /\ arg_id' = None
    /\ arg' = None
    /\ UNCHANGED <<max_id, it_id, yielded, operand, heap, alias>>

TPNext == Canonical \/ ShuffleNodes \/ Shuffle

SpecTP == TPInit /\ [][TPNext]_vars

SpecTPInts == TPIntsInit /\ [][TPNext]_vars

(***************************************************************************)
(* Specification of a TreePermutation object built in any of the three     *)
(* ways Permutation.__init__ offers, with inverse() among its operations.  *)
(* inverse() returns a deep copy whose elements are replaced; the object   *)
(* followed after the call is that copy.                                   *)
(***************************************************************************)
\* The object TreePermutation.__init__ leaves once Permutation.__init__ has
\* set elements to es.
TPIBuilt(tree_map, es) ==
    /\ Len(es) = count(LeafIterator(tree_map))
    /\ elements = es
    /\ max_id = factorial(Len(es))
    /\ tree = tag(tree_map, es)
    /\ last = "init"
    /\ it_id = 0
    /\ yielded = <<>>
    /\ operand = <<>>
    /\ NoHeap
    /\ NoLists

\* TreePermutation(tree_map, n, id) for any integer id.
TPIFromId ==
    \E tree_map \in Trees :
        LET n == count(LeafIterator(tree_map))
        IN  \E id \in (0 - MaxIdExcess)..(factorial(n) - 1 + MaxIdExcess) :
                /\ TPIBuilt(tree_map, PermutationInit(n, id))
                /\ arg_n = n
                /\ arg_id = id
                /\ arg = None

\* TreePermutation(tree_map, l) for a list l that is a complete index.
TPIFromList ==
    \E tree_map \in Trees :
        LET n == count(LeafIterator(tree_map))
        IN  \E l \in [1..n -> 0..n] :
                /\ isindex(l)
                /\ TPIBuilt(tree_map, l)
                /\ arg_n = None
                /\ arg_id = None
                /\ arg = l

\* TreePermutation(tree_map, p) for a Permutation p: elements is a copy of
\* the elements of p.
TPIFromPermutation ==
    \E tree_map \in Trees :
        LET n == count(LeafIterator(tree_map))
        IN  \E id \in 0..(factorial(n) - 1) :
                LET p == PermutationInit(n, id)
                IN  /\ TPIBuilt(tree_map, p)
                    /\ arg_n = None
                    /\ arg_id = None
                    /\ arg = p

TPIInit == TPIFromId \/ TPIFromList \/ TPIFromPermutation

\* tp = tp.inverse(): the tree of the copy keeps the tags of the original.
Inverse ==
    /\ elements' = inverse(elements)
    /\ last' = "inverse"
    /\ arg_n' = None
    /\ arg_id' = None
    /\ arg' = None
    /\ UNCHANGED <<tree, max_id, it_id, yielded, operand, heap, alias>>

TPINext == Canonical \/ ShuffleNodes \/ Shuffle \/ Inverse

SpecTPI == TPIInit /\ [][TPINext]_vars

(***************************************************************************)
(* Specification of a TreePermutation on a balanced tree, Tleaf([2]),      *)
(* Tleaf([3]) or Tleaf([2, 2]), with inverse() among its operations.       *)
(***************************************************************************)
TleafTrees == { Tleaf(<<2>>), Tleaf(<<3>>), Tleaf(<<2, 2>>) }

TPLInit == TPInitOf(TleafTrees)

SpecTPL == TPLInit /\ [][TPINext]_vars

(***************************************************************************)
(* Specification of a Permutation object                                   *)
(***************************************************************************)
\* Permutation(n, id), also with an id outside 0..n!-1.
PInit ==
    \E n \in 0..MaxN :
        \E id \in (0 - 1)..factorial(n) :
            /\ elements = PermutationInit(n, id)
            /\ max_id = factorial(n)
            /\ last = "init"
            /\ arg_n = n
            /\ arg_id = id
            /\ tree = Tree
            /\ it_id = 0
            /\ yielded = <<>>
            /\ operand = <<>>
            /\ arg = None
            /\ NoHeap
            /\ NoLists

\* Permutation.shuffle()
PShuffle ==
    /\ elements' \in shuffle(elements)
    /\ last' = "shuffle"
    /\ arg_n' = None
    /\ arg_id' = None
    /\ operand' = <<>>
    /\ UNCHANGED <<tree, max_id, it_id, yielded, arg, heap, alias>>

\* Permutation(len(p), p.id()) for the current permutation p.
PFromId ==
    /\ arg_n' = Len(elements)
    /\ arg_id' = PermutationId(elements)
    /\ elements' = PermutationInit(arg_n', arg_id')
    /\ max_id' = factorial(arg_n')
    /\ last' = "from_id"
    /\ operand' = <<>>
    /\ UNCHANGED <<tree, it_id, yielded, arg, heap, alias>>

\* a + p for the current permutation a and a permutation p built from any
\* integer id; the object followed after the call is the sum.
PAdd ==
    /\ Len(elements) <= MaxAddN
    /\ \E m \in { k \in {Len(elements) - 1, Len(elements)} : k >= 0 } :
         \E id \in (0 - MaxIdExcess)..(factorial(m) - 1 + MaxIdExcess) :
             /\ operand' = PermutationInit(m, id)
             /\ IF Len(operand') # Len(elements)
                THEN /\ last' = "ValueError"
                     /\ UNCHANGED <<elements, max_id>>
                ELSE /\ last' = "add"
                     /\ elements' = add(elements, operand')
                     /\ max_id' = factorial(Len(elements'))
             /\ arg_n' = None
             /\ arg_id' = None
             /\ UNCHANGED <<tree, it_id, yielded, arg, heap, alias>>

\* q = p.inverse() for the current permutation p: q is kept in operand.
PInverse ==
    /\ operand' = inverse(elements)
    /\ last' = "inverse"
    /\ arg_n' = None
    /\ arg_id' = None
    /\ UNCHANGED <<tree, elements, max_id, it_id, yielded, arg, heap, alias>>

PNext == PShuffle \/ PFromId \/ PAdd \/ PInverse

SpecP == PInit /\ [][PNext]_vars

(***************************************************************************)
(* Specification of the canonical enumerator: it builds the                *)
(* TreePermutation of every identifier in ascending order and yields the   *)
(* ones that are canonical.                                                *)
(***************************************************************************)
CPIInit ==
    \E tree_map \in IntTrees :
        LET n == count(LeafIterator(tree_map))
        IN  /\ elements = PermutationInit(n, 0)
            /\ max_id = factorial(n)
            /\ tree = tag(tree_map, elements)
            /\ last = "init"
            /\ arg_n = n
            /\ arg_id = 0
            /\ it_id = 0
            /\ yielded = <<>>
            /\ operand = <<>>
            /\ arg = None
            /\ NoHeap
            /\ NoLists

\* The enumerator tries identifier it_id: TreePermutation(tree, n, it_id).
CPITry ==
    /\ it_id < max_id
    /\ arg_id' = it_id
    /\ elements' = PermutationInit(arg_n, it_id)
    /\ tree' = tag(tree, elements')
    /\ it_id' = it_id + 1
    /\ UNCHANGED <<max_id, arg_n, operand, arg, heap, alias>>

\* The permutation tried is canonical and is yielded.
CPIYield ==
    /\ CPITry
    /\ is_canonical(tree')
    /\ yielded' = Append(yielded, elements')
    /\ last' = "yield"

\* The permutation tried is not canonical and is skipped.
CPISkip ==
    /\ CPITry
    /\ ~is_canonical(tree')
    /\ yielded' = yielded
    /\ last' = "skip"

CPINext == CPIYield \/ CPISkip

SpecCPI == CPIInit /\ [][CPINext]_vars

(***************************************************************************)
(* Specification of a TreeIterator over a node of a tree built by          *)
(* Tree.from_list.                                                         *)
(***************************************************************************)
\* The objects below t, t included.
RECURSIVE subtree(_, _)
subtree(h, t) ==
    {t} \cup UNION { subtree(h, h.children[t][k]) : k \in 1..Len(h.children[t]) }

\* No TreePermutation has been built.
NoPermutation ==
    /\ tree = Tree
    /\ elements = <<>>
    /\ max_id = None
    /\ arg_n = None
    /\ arg_id = None
    /\ it_id = 0
    /\ operand = <<>>

\* The node objects Tree.from_list(l) builds for one of the nested lists l.
HeapInit ==
    \E l \in TreeListsOf(MaxNodes, MaxLeaves) :
        LET h == heap_from_list(EmptyHeap, l)[1]
        IN  /\ node_parent = h.parent
            /\ node_children = h.children

\* TreeIterator(t) or TreeIterator(t, lambda n: n.is_leaf()) for a node t.
ItInit ==
    /\ HeapInit
    /\ this \in Objects(Heap)
    /\ arg \in { Objects(Heap),
                 { n \in Objects(Heap) : Len(node_children[n]) = 0 } }
    /\ current = reset(Heap, this)
    /\ yielded = <<>>
    /\ returned = None
    /\ visit = <<>>
    /\ steps = 0
    /\ pass_start = 0
    /\ last = "init"
    /\ NoPermutation
    /\ NoLists

\* next(it)
ItNext ==
    LET r == next(Heap, this, current, arg)
    IN  /\ IF r.raised # ""
           THEN /\ last' = r.raised
                /\ returned' = None
                /\ yielded' = yielded
           ELSE /\ last' = "next"
                /\ returned' = r.ret
                /\ yielded' = Append(yielded, r.ret)
        /\ current' = r.current
        /\ UNCHANGED <<node_parent, node_children, this, arg, visit, steps,
                       pass_start, perm, alias>>

\* it.reset()
ItReset ==
    /\ steps < MaxResets
    /\ current' = reset(Heap, this)
    /\ steps' = steps + 1
    /\ pass_start' = Len(yielded)
    /\ UNCHANGED <<node_parent, node_children, this, arg, visit, yielded,
                   returned, last, perm, alias>>

ItStep == ItNext \/ ItReset

SpecIt == ItInit /\ [][ItStep]_vars /\ WF_vars(ItNext)

(***************************************************************************)
(* Specification of a ScatterTreeIterator over a node of a tree built by   *)
(* Tree.from_list.  next(it) can be called again after a StopIteration:    *)
(* the iterator keeps no record of it.                                     *)
(***************************************************************************)
\* ScatterTreeIterator(t) or ScatterTreeIterator(t, lambda n: n.is_leaf()).
ScInit ==
    /\ HeapInit
    /\ this \in Objects(Heap)
    /\ arg \in { Objects(Heap),
                 { n \in Objects(Heap) : Len(node_children[n]) = 0 } }
    /\ visit = [n \in subtree(Heap, this) |-> 0 - 2]
    /\ current = None
    /\ yielded = <<>>
    /\ returned = None
    /\ steps = 0
    /\ pass_start = 0
    /\ last = "init"
    /\ NoPermutation
    /\ NoLists

\* next(it)
ScNext ==
    /\ LET r == scatter_next(Heap, this, visit, arg)
       IN  /\ IF r.raised # ""
              THEN /\ last' = r.raised
                   /\ yielded' = yielded
              ELSE /\ last' = "next"
                   /\ yielded' = Append(yielded, r.ret)
           /\ returned' = r.ret
           /\ visit' = r.visit
    /\ UNCHANGED <<node_parent, node_children, this, arg, current, steps,
                   pass_start, perm, alias>>

SpecSc == ScInit /\ [][ScNext]_vars

(***************************************************************************)
(* Specification of a tree of node objects: built by Tree.from_list, grown *)
(* with the constructor, connect_children and connect_parent, and changed  *)
(* with swap, remove, remove_depth and prune.  The program holds the root, *)
(* object 1, and calls the operations on the nodes it reaches from it.     *)
(***************************************************************************)
TreeInit ==
    /\ \E l \in TreeListsOf(MaxTreeNodes, MaxTreeNodes) :
           LET h == heap_from_list(EmptyHeap, l)[1]
           IN  /\ node_parent = h.parent
               /\ node_children = h.children
    /\ this = None
    /\ arg = None
    /\ returned = None
    /\ current = None
    /\ visit = <<>>
    /\ yielded = <<>>
    /\ steps = 0
    /\ pass_start = 0
    /\ last = "init"
    /\ NoPermutation
    /\ NoLists

\* The nodes the program reaches from the root.
Reached == subtree(Heap, 1)

\* The heap h becomes the heap of the next state.
HeapBecomes(h) ==
    /\ node_parent' = h.parent
    /\ node_children' = h.children

\* Tree(parent=p)
Construct ==
    /\ steps < MaxOps
    /\ Len(node_parent) < MaxTreeNodes
    /\ \E p \in Reached :
           LET n == Len(node_parent) + 1
               h == new_Tree(Heap)
           IN  /\ HeapBecomes([parent |-> [h.parent EXCEPT ![n] = p],
                               children |-> [h.children EXCEPT
                                                ![p] = Append(@, n)]])
               /\ this' = n
               /\ arg' = p
    /\ returned' = None
    /\ last' = "Tree"
    /\ steps' = steps + 1
    /\ UNCHANGED pass_start
    /\ UNCHANGED <<current, visit, yielded, perm, alias>>

\* t.connect_children(Tree())
ConnectChildren ==
    /\ steps < MaxOps
    /\ Len(node_parent) < MaxTreeNodes
    /\ \E t \in Reached :
           LET n == Len(node_parent) + 1
           IN  /\ HeapBecomes(heap_connect_children(new_Tree(Heap), t, <<n>>))
               /\ this' = t
               /\ arg' = <<n>>
    /\ returned' = None
    /\ last' = "connect_children"
    /\ steps' = steps + 1
    /\ UNCHANGED pass_start
    /\ UNCHANGED <<current, visit, yielded, perm, alias>>

\* Tree().connect_parent(p)
ConnectParent ==
    /\ steps < MaxOps
    /\ Len(node_parent) < MaxTreeNodes
    /\ \E p \in Reached :
           LET n == Len(node_parent) + 1
               h == new_Tree(Heap)
           IN  /\ HeapBecomes([parent |-> [h.parent EXCEPT ![n] = p],
                               children |-> [h.children EXCEPT
                                                ![p] = Append(@, n)]])
               /\ this' = n
               /\ arg' = p
    /\ returned' = None
    /\ last' = "connect_parent"
    /\ steps' = steps + 1
    /\ UNCHANGED pass_start
    /\ UNCHANGED <<current, visit, yielded, perm, alias>>

\* t.swap(index) for a list index of ints, among them the first int past
\* either end of the children of t: the list comprehension raises
\* IndexError, before any child is moved, when an element of index is not
\* the position of a child.
Swap ==
    /\ steps < MaxOps
    /\ \E t \in Reached :
           \E index \in IntListsBetween(MaxIndexLen,
                                        0 - Len(node_children[t]) - 1,
                                        Len(node_children[t])) :
               /\ this' = t
               /\ arg' = index
               /\ IF \E k \in 1..Len(index) :
                         ~in_list(node_children[t], index[k])
                  THEN /\ last' = "IndexError"
                       /\ UNCHANGED <<node_parent, node_children>>
                  ELSE /\ last' = "swap"
                       /\ HeapBecomes(heap_swap(Heap, t, index))
    /\ returned' = None
    /\ steps' = steps + 1
    /\ UNCHANGED pass_start
    /\ UNCHANGED <<current, visit, yielded, perm, alias>>

\* x.remove()
Remove ==
    /\ steps < MaxOps
    /\ \E x \in Reached :
           /\ this' = x
           /\ HeapBecomes(heap_remove(Heap, x))
           /\ returned' = x
    /\ arg' = None
    /\ last' = "remove"
    /\ steps' = steps + 1
    /\ UNCHANGED pass_start
    /\ UNCHANGED <<current, visit, yielded, perm, alias>>

\* t.remove_depth(depth).  Nothing is walked when depth, counted from the
\* root, is not positive; otherwise the call does not return when the walk
\* of the root does not end, and a TypeError of the walk leaves the call
\* before any node is removed.
RemoveDepth ==
    /\ steps < MaxOps
    /\ \E t \in Reached :
           \E depth \in (0 - 1)..(MaxTreeNodes - 1) :
               LET walked == IF depth + get_depth(Heap, t) <= 0 THEN ""
                             ELSE nodes_of(Heap, root(Heap, t)).raised
               IN  /\ walked # "no end"
                   /\ this' = t
                   /\ arg' = depth
                   /\ IF walked = "TypeError"
                      THEN /\ last' = "TypeError"
                           /\ returned' = None
                           /\ UNCHANGED <<node_parent, node_children>>
                      ELSE /\ last' = "remove_depth"
                           /\ returned' = t
                           /\ HeapBecomes(heap_remove_depth(Heap, t, depth))
    /\ steps' = steps + 1
    /\ UNCHANGED pass_start
    /\ UNCHANGED <<current, visit, yielded, perm, alias>>

\* t.prune(cond) for cond the set of objects that satisfy the condition.  The
\* call does not return when the walk of t does not end.
Prune ==
    /\ steps < MaxOps
    /\ \E t \in Reached :
           \E cond \in SUBSET Objects(Heap) :
               /\ nodes_of(Heap, t).raised # "no end"
               /\ this' = t
               /\ arg' = cond
               /\ IF nodes_of(Heap, t).raised = "TypeError"
                  THEN /\ last' = "TypeError"
                       /\ returned' = None
                       /\ UNCHANGED <<node_parent, node_children>>
                  ELSE /\ last' = "prune"
                       /\ returned' = eliminated_of(Heap, t, cond)
                       /\ HeapBecomes(heap_prune(Heap, t, cond))
    /\ steps' = steps + 1
    /\ UNCHANGED pass_start
    /\ UNCHANGED <<current, visit, yielded, perm, alias>>

TreeNext ==
    \/ Construct
    \/ ConnectChildren
    \/ ConnectParent
    \/ Swap
    \/ Remove
    \/ RemoveDepth
    \/ Prune

SpecTree == TreeInit /\ [][TreeNext]_vars

(***************************************************************************)
(* Specification of the Permutation constructor                            *)
(***************************************************************************)
\* The lists given to Permutation(n): complete indexes and lists with an
\* element missing, repeated, negative or too large.
Lists == UNION { [1..k -> (0 - 1)..MaxListLen] : k \in 0..MaxListLen }

\* First arguments of Permutation(n) whose type is not int, Permutation or
\* list: tuples, a float, a string and None.  A tuple holds the elements a
\* list would.
OtherArguments ==
    { [type |-> "tuple", value |-> l] : l \in { x \in Lists : Len(x) <= 2 } }
        \cup { [type |-> "float", value |-> "2.0"],
               [type |-> "str", value |-> "10"],
               [type |-> "NoneType", value |-> "None"] }

\* No call of the constructor has been made and no object exists.
PCInit ==
    /\ NoPermutation
    /\ NoHeap
    /\ NoLists
    /\ last = "init"
    /\ yielded = <<>>
    /\ arg = None

\* The call Permutation(n) raised exception: no object is built.
PCRaises(exception) ==
    /\ last' = exception
    /\ elements' = <<>>
    /\ max_id' = None

\* Permutation(n) for an int n, with the default id 0.
PCFromInt ==
    /\ last = "init"
    /\ \E n \in 0..MaxN :
           /\ arg' = [type |-> "int", value |-> n]
           /\ elements' = PermutationInit(n, 0)
           /\ max_id' = factorial(n)
           /\ last' = "Permutation"
    /\ UNCHANGED <<tree, arg_n, arg_id, it_id, yielded, operand, heap, alias>>

\* Permutation(p) for the Permutation p built before.
PCFromPermutation ==
    /\ max_id # None
    /\ arg' = [type |-> "Permutation", value |-> elements]
    /\ elements' = elements
    /\ max_id' = factorial(Len(elements))
    /\ last' = "Permutation"
    /\ UNCHANGED <<tree, arg_n, arg_id, it_id, yielded, operand, heap, alias>>

\* Permutation(l) for a list l of integers.
PCFromList ==
    /\ last = "init"
    /\ \E l \in Lists :
           /\ arg' = [type |-> "list", value |-> l]
           /\ IF ~isindex(l)
              THEN PCRaises("ValueError")
              ELSE /\ elements' = l
                   /\ max_id' = factorial(Len(l))
                   /\ last' = "Permutation"
    /\ UNCHANGED <<tree, arg_n, arg_id, it_id, yielded, operand, heap, alias>>

\* Permutation(n) for n of another type.
PCFromOther ==
    /\ last = "init"
    /\ \E n \in OtherArguments :
           /\ arg' = n
           /\ PCRaises("TypeError")
    /\ UNCHANGED <<tree, arg_n, arg_id, it_id, yielded, operand, heap, alias>>

PCNext ==
    \/ PCFromInt
    \/ PCFromPermutation
    \/ PCFromList
    \/ PCFromOther

SpecPC == PCInit /\ [][PCNext]_vars

(***************************************************************************)
(* Specification of the TreePermutation constructor, called any number of  *)
(* times on the same tree with an argument of the right or of a wrong      *)
(* length.                                                                 *)
(***************************************************************************)
\* TreePermutation.__init__ as it would be if it tagged the tree before
\* comparing the number of elements with the number of leaves.
TreePermutationInit_tag_first(tree_map, es) ==
    [raised |-> IF Len(es) # count(LeafIterator(tree_map))
                THEN "ValueError" ELSE "",
     tree |-> tag(tree_map, es)]

\* TreePermutation.__init__ once Permutation.__init__ has set elements to
\* es: the exception raised, if any, and the tree after the call.
TreePermutationInit(tree_map, es) ==
    IF Len(es) # count(LeafIterator(tree_map))
    THEN [raised |-> "ValueError", tree |-> tree_map]
    ELSE [raised |-> "", tree |-> tag(tree_map, es)]

\* The ids the constructor calls are made with, for n elements.
SomeIds(n) == {0, 1 % factorial(n), factorial(n) - 1}

\* The numbers of elements the constructor calls are made with, for a tree
\* with n leaves.
SomeLengths(n) == { m \in {n - 1, n, n + 1} : m >= 0 }

\* No call of the constructor has been made: the tree has no tag and no
\* object exists.
TPCInit ==
    /\ tree \in Trees
    /\ elements = <<>>
    /\ max_id = None
    /\ last = "init"
    /\ arg = None
    /\ arg_n = None
    /\ arg_id = None
    /\ it_id = 0
    /\ yielded = <<>>
    /\ operand = <<>>
    /\ NoHeap
    /\ NoLists

\* The end of the call once Permutation.__init__ has set elements to es.
TPCBuilt(es) ==
    LET done == TreePermutationInit(tree, es)
    IN  /\ tree' = done.tree
        /\ IF done.raised # ""
           THEN /\ last' = done.raised
                /\ elements' = <<>>
                /\ max_id' = None
           ELSE /\ last' = "TreePermutation"
                /\ elements' = es
                /\ max_id' = factorial(Len(es))

\* TreePermutation(tree): as many elements as leaves.
TPCDefault ==
    /\ arg' = [type |-> "none", value |-> None]
    /\ TPCBuilt(PermutationInit(count(LeafIterator(tree)), 0))
    /\ UNCHANGED <<arg_n, arg_id, it_id, yielded, operand, heap, alias>>

\* TreePermutation(tree, n, id)
TPCFromInt ==
    /\ \E n \in SomeLengths(count(LeafIterator(tree))) :
           \E id \in SomeIds(n) :
               /\ arg' = [type |-> "int", value |-> <<n, id>>]
               /\ TPCBuilt(PermutationInit(n, id))
    /\ UNCHANGED <<arg_n, arg_id, it_id, yielded, operand, heap, alias>>

\* TreePermutation(tree, l) for a list l: a complete index of any length,
\* or a list that repeats an element.
TPCFromList ==
    /\ \E n \in SomeLengths(count(LeafIterator(tree))) :
           \E l \in { PermutationInit(n, id) : id \in SomeIds(n) }
                        \cup { [i \in 1..n |-> 0] } :
               /\ arg' = [type |-> "list", value |-> l]
               /\ IF ~isindex(l)
                  THEN /\ last' = "ValueError"
                       /\ elements' = <<>>
                       /\ max_id' = None
                       /\ tree' = tree
                  ELSE TPCBuilt(l)
    /\ UNCHANGED <<arg_n, arg_id, it_id, yielded, operand, heap, alias>>

\* TreePermutation(tree, p) for a Permutation p of any length.
TPCFromPermutation ==
    /\ \E n \in SomeLengths(count(LeafIterator(tree))) :
           \E id \in SomeIds(n) :
               /\ arg' = [type |-> "Permutation",
                          value |-> PermutationInit(n, id)]
               /\ TPCBuilt(PermutationInit(n, id))
    /\ UNCHANGED <<arg_n, arg_id, it_id, yielded, operand, heap, alias>>

TPCNext ==
    \/ TPCDefault
    \/ TPCFromInt
    \/ TPCFromList
    \/ TPCFromPermutation

SpecTPC == TPCInit /\ [][TPCNext]_vars

(***************************************************************************)
(* Specification of the calls of connect_children and connect_parent, with *)
(* arguments that are new nodes, Tree(), or values that are not nodes.     *)
(***************************************************************************)
\* An argument that is neither a Tree nor a list, such as 5.
NotATree == 0

\* The loop of connect_children over the list c, from its i-th element: the
\* heap after the call and the exception raised, if any.  The nodes before
\* an element that is not a Tree are connected when the exception is raised.
RECURSIVE connect_loop(_, _, _, _)
connect_loop(h, t, c, i) ==
    IF i > Len(c) THEN [heap |-> h, raised |-> ""]
    ELSE IF c[i] = NotATree THEN [heap |-> h, raised |-> "ValueError"]
    ELSE connect_loop(heap_connect_children(h, t, <<c[i]>>), t, c, i + 1)

\* t.connect_children(*items) when form is "arguments" and
\* t.connect_children(items) when form is "list".  With separate arguments
\* the list c is [args[0]] when args[0] is a Tree, and args[0] of an empty
\* args is an IndexError.
connect_children_call(h, t, form, items) ==
    IF form = "arguments" /\ items = <<>>
    THEN [heap |-> h, raised |-> "IndexError"]
    ELSE LET c == IF form = "list" THEN items
                  ELSE IF items[1] # NotATree THEN <<items[1]>>
                  ELSE items
         IN  connect_loop(h, t, c, 1)

\* The heap h with k more objects Tree().
RECURSIVE new_Trees(_, _)
new_Trees(h, k) == IF k = 0 THEN h ELSE new_Trees(new_Tree(h), k - 1)

\* The arguments that follow pattern, a list of booleans: a new node where
\* it is TRUE, numbered after the m objects that exist, NotATree elsewhere.
items_of(pattern, m) ==
    [k \in 1..Len(pattern) |->
        IF pattern[k]
        THEN m + Cardinality({ j \in 1..k : pattern[j] })
        ELSE NotATree]

Patterns == UNION { [1..k -> BOOLEAN] : k \in 0..MaxArgs }

ConnInit == TreeInit

\* t.connect_children(...) on a node t of the tree.
ConnCallChildren ==
    /\ steps < MaxOps
    /\ \E t \in Objects(Heap), form \in {"arguments", "list"},
          pattern \in Patterns :
           LET items == items_of(pattern, Len(node_parent))
               fresh == Cardinality({ k \in 1..Len(pattern) : pattern[k] })
               done == connect_children_call(new_Trees(Heap, fresh), t,
                                             form, items)
           IN  /\ HeapBecomes(done.heap)
               /\ this' = t
               /\ arg' = [form |-> form, items |-> items]
               /\ last' = IF done.raised = "" THEN "connect_children"
                          ELSE done.raised
    /\ returned' = None
    /\ steps' = steps + 1
    /\ UNCHANGED pass_start
    /\ UNCHANGED <<current, visit, yielded, perm, alias>>

\* Tree().connect_parent(p) for a node p of the tree or a value that is not
\* a node.
ConnCallParent ==
    /\ steps < MaxOps
    /\ \E p \in Objects(Heap) \cup {NotATree} :
           LET n == Len(node_parent) + 1
               h == new_Tree(Heap)
           IN  /\ this' = n
               /\ arg' = [form |-> "connect_parent", items |-> <<p>>]
               /\ IF p = NotATree
                  THEN /\ last' = "ValueError"
                       /\ HeapBecomes(h)
                  ELSE /\ last' = "connect_parent"
                       /\ HeapBecomes(
                              [parent |-> [h.parent EXCEPT ![n] = p],
                               children |-> [h.children EXCEPT
                                                ![p] = Append(@, n)]])
    /\ returned' = None
    /\ steps' = steps + 1
    /\ UNCHANGED pass_start
    /\ UNCHANGED <<current, visit, yielded, perm, alias>>

ConnNext == ConnCallChildren \/ ConnCallParent

SpecConn == ConnInit /\ [][ConnNext]_vars

(***************************************************************************)
(* Specification of two Permutations p and q and of the list objects their *)
(* elements attributes refer to.  p is built from (n, id) or from a list l *)
(* of the caller; q is built from p or from the same list l, and then      *)
(* shuffled.                                                               *)
(***************************************************************************)
\* p = Permutation(n, id): elements is a new list.
AliasInitFromId ==
    \E n \in 0..MaxN :
        \E id \in 0..(factorial(n) - 1) :
            /\ lists = <<PermutationInit(n, id)>>
            /\ refs = [l |-> None, p |-> 1, q |-> None]

\* l = [...]; p = Permutation(l): elements is the list l itself.
AliasInitFromList ==
    \E n \in 0..MaxN :
        \E id \in 0..(factorial(n) - 1) :
            /\ lists = <<PermutationInit(n, id)>>
            /\ refs = [l |-> 1, p |-> 1, q |-> None]

AliasInit ==
    /\ AliasInitFromId \/ AliasInitFromList
    /\ last = "init"
    /\ yielded = <<>>
    /\ arg = None
    /\ NoPermutation
    /\ NoHeap

\* q = p.copy(): deepcopy gives q a new list with the elements of p.
AliasCopy ==
    /\ refs.q = None
    /\ lists' = Append(lists, lists[refs.p])
    /\ refs' = [refs EXCEPT !.q = Len(lists')]
    /\ last' = "copy"
    /\ UNCHANGED <<yielded, arg, perm, heap>>

\* q = Permutation(p): elements is n.elements.copy(), a new list.
AliasFromPermutation ==
    /\ refs.q = None
    /\ lists' = Append(lists, lists[refs.p])
    /\ refs' = [refs EXCEPT !.q = Len(lists')]
    /\ last' = "Permutation(p)"
    /\ UNCHANGED <<yielded, arg, perm, heap>>

\* q = Permutation(l) for the list l that p was built from: elements is l.
AliasFromList ==
    /\ refs.q = None
    /\ refs.l # None
    /\ refs' = [refs EXCEPT !.q = refs.l]
    /\ last' = "Permutation(l)"
    /\ UNCHANGED <<lists, yielded, arg, perm, heap>>

\* q.shuffle(): random.shuffle reorders the list q.elements refers to.
AliasShuffle ==
    /\ refs.q # None
    /\ \E es \in shuffle(lists[refs.q]) :
           lists' = [lists EXCEPT ![refs.q] = es]
    /\ last' = "shuffle"
    /\ UNCHANGED <<refs, yielded, arg, perm, heap>>

AliasNext ==
    \/ AliasCopy
    \/ AliasFromPermutation
    \/ AliasFromList
    \/ AliasShuffle

SpecAlias == AliasInit /\ [][AliasNext]_vars

(***************************************************************************)
(* Specification of the calls of get_depth and max_depth on the nodes of a *)
(* tree built by Tree.from_list.                                           *)
(***************************************************************************)
Max(S) == CHOOSE x \in S : \A y \in S : x >= y

\* x.max_depth(): the largest get_depth() of the leaves TreeIterator(x,
\* is_leaf) yields.
max_depth(h, x) ==
    LET leaves == SelectSeq(nodes_of(h, x).nodes,
                            LAMBDA n : Len(h.children[n]) = 0)
    IN  Max({ get_depth(h, leaves[k]) : k \in 1..Len(leaves) })

DepthInit ==
    /\ HeapInit
    /\ this = None
    /\ arg = None
    /\ returned = None
    /\ current = None
    /\ visit = <<>>
    /\ yielded = <<>>
    /\ steps = 0
    /\ pass_start = 0
    /\ last = "init"
    /\ NoPermutation
    /\ NoLists

\* x.get_depth() for a node x of the tree.
GetDepth ==
    /\ \E x \in Objects(Heap) :
           /\ this' = x
           /\ returned' = get_depth(Heap, x)
    /\ last' = "get_depth"
    /\ UNCHANGED <<node_parent, node_children, arg, current, visit, yielded,
                   steps, pass_start, perm, alias>>

\* x.max_depth() for a node x of the tree.
MaxDepth ==
    /\ \E x \in Objects(Heap) :
           /\ this' = x
           /\ returned' = max_depth(Heap, x)
    /\ last' = "max_depth"
    /\ UNCHANGED <<node_parent, node_children, arg, current, visit, yielded,
                   steps, pass_start, perm, alias>>

DepthNext == GetDepth \/ MaxDepth

SpecDepth == DepthInit /\ [][DepthNext]_vars

(***************************************************************************)
(* Properties                                                              *)
(***************************************************************************)
\* The tree t without the attributes TreePermutation attaches: the children
\* of every node in their current order.
RECURSIVE shape(_)
shape(t) ==
    [children |-> [i \in 1..Len(t.children) |-> shape(t.children[i])],
     permutation_index |-> NoIndex,
     grouped_children |-> NoGroups]

\* The permutation indexes of the leaves below (or at) node t.
leaf_indexes(t) ==
    LET leaves == LeafIterator(t)
    IN  { leaves[k].permutation_index : k \in 1..Len(leaves) }

\* The internal nodes of the tree, in TreeIterator order.
internal_nodes(t) == SelectSeq(TreeIterator(t), LAMBDA n : ~is_leaf(n))

\* The groups of node n that hold child position i.
groups_of(n, i) ==
    { g \in 1..Len(n.grouped_children) :
          \E k \in 1..Len(n.grouped_children[g]) : n.grouped_children[g][k] = i }

\* Same number of nodes and the same arity at every corresponding node of
\* the two walks.
structurally_isomorphic(a, b) ==
    /\ Len(TreeIterator(a)) = Len(TreeIterator(b))
    /\ \A k \in 1..Len(TreeIterator(a)) :
           arity(TreeIterator(a)[k]) = arity(TreeIterator(b)[k])

\* C1: for every n >= 0 and every id with 0 <= id < n!, the permutation
\* built by Permutation(n, id) has id() equal to id.
C1_IdOfInit ==
    (last = "init" /\ arg_id \in 0..(factorial(arg_n) - 1))
        => PermutationId(elements) = arg_id

C1_Witness ==
    /\ last = "init"
    /\ arg_n >= 3
    /\ arg_id = factorial(arg_n) - 1
    /\ elements[1] = arg_n - 1

\* C2: for every permutation p of 0..n-1, in any arrangement a shuffle can
\* leave, p.id() lies in 0..n!-1 and Permutation(n, p.id()) has the
\* elements of p.
C2_InitOfId ==
    [][last' = "from_id" =>
          /\ arg_id' \in 0..(factorial(Len(elements)) - 1)
          /\ elements' = elements]_vars

C2_Witness ==
    /\ last = "from_id"
    /\ Len(elements) >= 3
    /\ elements[1] # 0
    /\ elements[2] > elements[3]
    /\ arg_id = PermutationId(elements)

\* C3: whatever the random draws, shuffle_nodes() followed by canonical()
\* gives the elements canonical() gives without the shuffle_nodes().
C3_ShuffleNodesThenCanonical ==
    [][last' = "shuffle_nodes" =>
          update_elements(canonical_nodes(tree')) =
              update_elements(canonical_nodes(tree))]_vars

\* C4: canonical() is idempotent: a second call leaves the elements and the
\* order of the children of every node as the first call left them.
C4_CanonicalIdempotent ==
    last = "canonical" =>
        /\ canonical_nodes(tree) = tree
        /\ update_elements(canonical_nodes(tree)) = elements

\* C5: right after canonical() returns, is_canonical() is true.
C5_CanonicalIsCanonical == last = "canonical" => is_canonical(tree)

\* C6: for the tree Tleaf([2, 2]), trying the 4! = 24 identifiers in
\* ascending order and keeping the canonical permutations yields exactly 3
\* permutations, pairwise distinct, each canonical.
C6_Tleaf22HasThreeCanonical ==
    (shape(tree) = Tleaf(<<2, 2>>) /\ it_id = max_id) =>
        /\ it_id = 24
        /\ Len(yielded) = 3
        /\ \A i, j \in 1..Len(yielded) : i # j => yielded[i] # yielded[j]
        /\ \A i \in 1..Len(yielded) : is_canonical(tag(tree, yielded[i]))

C6_Witness ==
    /\ shape(tree) = Tleaf(<<2, 2>>)
    /\ it_id = max_id
    /\ Len(yielded) = 3
    /\ yielded[1] = <<0, 1, 2, 3>>

\* C7: after construction and after any sequence of canonical(),
\* shuffle_nodes() and shuffle(), elements has one entry per leaf,
\* elements[k] is the permutation_index of the k-th leaf of the walk, and
\* the permutation_index of every internal node is the smallest
\* permutation_index of the leaves below it.
C7_ViewsConsistent ==
    LET leaves == LeafIterator(tree)
        nodes == internal_nodes(tree)
    IN  /\ Len(elements) = Len(leaves)
        /\ \A k \in 1..Len(leaves) : elements[k] = leaves[k].permutation_index
        /\ \A k \in 1..Len(nodes) :
               nodes[k].permutation_index = Min(leaf_indexes(nodes[k]))

C7_Witness ==
    /\ last = "shuffle_nodes"
    /\ Len(elements) = 3
    /\ elements[1] # 0
    /\ Len(internal_nodes(tree)) >= 2
    /\ \E k \in 1..Len(internal_nodes(tree)) :
           /\ internal_nodes(tree)[k].permutation_index # 0
           /\ internal_nodes(tree)[k].children[1].permutation_index
                  # internal_nodes(tree)[k].permutation_index

\* C8: after construction, the grouped_children of every internal node is a
\* partition of its child positions: every position is in exactly one group.
C8_GroupsPartition ==
    last = "init" =>
        \A k \in 1..Len(internal_nodes(tree)) :
            LET n == internal_nodes(tree)[k]
            IN  \A i \in 0..(arity(n) - 1) : Cardinality(groups_of(n, i)) = 1

\* C9: two children of a node are in the same group exactly when their
\* subtrees are structurally isomorphic.
C9_GroupsAreIsomorphismClasses ==
    last = "init" =>
        \A k \in 1..Len(internal_nodes(tree)) :
            LET n == internal_nodes(tree)[k]
            IN  \A i, j \in 0..(arity(n) - 1) :
                    (groups_of(n, i) \cap groups_of(n, j) # {})
                        <=> structurally_isomorphic(n.children[i + 1],
                                                    n.children[j + 1])

\* C10 as stated: the object shuffle() returns is canonical.
C10_ShuffleIsCanonical == last = "shuffle" => is_canonical(tree)

\* C10, amended: shuffle() keeps the order of the children of every node,
\* sets elements to a permutation of the former elements and gives the k-th
\* leaf of the walk the index elements[k]; the object returned is canonical
\* only when that permutation is.
C10_ShuffleRetags ==
    [][last' = "shuffle" =>
          /\ shape(tree') = shape(tree)
          /\ Len(elements') = Len(elements)
          /\ \A v \in 0..(Len(elements) - 1) :
                 \E k \in 1..Len(elements') : elements'[k] = v
          /\ update_elements(tree') = elements']_vars

C10_Witness == last = "shuffle" /\ ~is_canonical(tree) /\ Len(elements) = 3

\* C11: however a TreePermutation was built (from (n, id) with any integer
\* id, from a complete index, from a copy of a Permutation), after any
\* sequence of shuffle(), canonical(), shuffle_nodes() and inverse() every
\* integer of 0..n-1 is exactly once in elements, and n never changes.
C11_ElementsIsPermutation ==
    /\ [](\A v \in 0..(Len(elements) - 1) :
             Cardinality({ k \in 1..Len(elements) : elements[k] = v }) = 1)
    /\ [][Len(elements') = Len(elements)]_vars

C11_Witness ==
    /\ last = "inverse"
    /\ elements = <<2, 0, 1>>
    /\ update_elements(tree) # elements

\* C12: for permutations a and b of the same length n, built from any
\* integer ids, (a + b).id() is (a.id() + b.id()) mod n!.
C12_AddIsSumOfIds ==
    [][last' = "add" =>
          PermutationId(elements') =
              (PermutationId(elements) + PermutationId(operand'))
                  % factorial(Len(elements))]_vars

C12_Witness ==
    /\ last = "add"
    /\ Len(elements) = 3
    /\ PermutationId(operand) = 4
    /\ PermutationId(elements) = 1

\* C13: for every permutation p, q = p.inverse() has q[p[i]] = i at every
\* position i, and the call leaves the elements of p as they were.
C13_InverseOfPermutation ==
    [][last' = "inverse" =>
          /\ elements' = elements
          /\ Len(operand') = Len(elements)
          /\ \A i \in 1..Len(elements) : operand'[elements[i] + 1] = i - 1]_vars

C13_Witness ==
    /\ last = "inverse"
    /\ elements = <<1, 2, 0>>
    /\ operand = <<2, 0, 1>>

\* a < b for two Python lists of integers.
list_less(a, b) ==
    \/ Len(a) < Len(b) /\ \A k \in 1..Len(a) : a[k] = b[k]
    \/ \E k \in 1..Len(a) :
           /\ k <= Len(b)
           /\ a[k] < b[k]
           /\ \A j \in 1..(k - 1) : a[j] = b[j]

\* The nodes the TreeIterator has yielded since it was constructed or last
\* reset.
this_pass == SubSeq(yielded, pass_start + 1, Len(yielded))

\* C14: TreeIterator(t) without a filter, since its construction or its last
\* reset(), yields only nodes of the subtree of t, each once and after all
\* the nodes below it; two consecutive nodes prev, node have prev.coords() <
\* node.coords() or prev deeper than node; the iterator is exhausted exactly
\* when every node has been yielded, t last; StopIteration is raised only by
\* an exhausted iterator, and it is eventually raised.
C14_PostOrderWalk ==
    /\ [](arg = Objects(Heap) =>
            /\ \A k \in 1..Len(this_pass) :
                   /\ this_pass[k] \in subtree(Heap, this)
                   /\ \A j \in 1..(k - 1) : this_pass[j] # this_pass[k]
                   /\ \A d \in subtree(Heap, this_pass[k]) \ {this_pass[k]} :
                          \E j \in 1..(k - 1) : this_pass[j] = d
            /\ \A k \in 2..Len(this_pass) :
                   \/ list_less(coords(Heap, this_pass[k - 1]),
                                coords(Heap, this_pass[k]))
                   \/ Len(coords(Heap, this_pass[k - 1]))
                          > Len(coords(Heap, this_pass[k]))
            /\ (current = None <=>
                    Len(this_pass) = Cardinality(subtree(Heap, this)))
            /\ (current = None => this_pass[Len(this_pass)] = this)
            /\ (last = "StopIteration" =>
                    current = None \/ this_pass = <<>>)
            /\ last # "TypeError")
    /\ [][(arg = Objects(Heap) /\ last' = "StopIteration" /\ returned' = None
              /\ current' = current /\ yielded' = yielded
              /\ steps' = steps)
          => current = None]_vars
    /\ <>(last = "StopIteration")

\* A walk of a tree of 5 nodes that was reset after 2 nodes and then ran to
\* StopIteration.
C14_Witness ==
    /\ last = "StopIteration"
    /\ arg = Objects(Heap)
    /\ this = 1
    /\ steps = 1
    /\ pass_start = 2
    /\ Len(this_pass) = 5
    /\ Len(node_children[1]) = 2
    /\ Len(node_children[2]) = 1

\* C15: when ScatterTreeIterator(t) without a filter raises StopIteration,
\* it has yielded every node of the tree exactly once, a node never before a
\* node nearer to t.
C15_ScatterYieldsEveryNode ==
    (last = "StopIteration" /\ arg = Objects(Heap)) =>
        /\ \A n \in subtree(Heap, this) :
               Cardinality({ k \in 1..Len(yielded) : yielded[k] = n }) = 1
        /\ \A k \in 2..Len(yielded) :
               Len(coords(Heap, yielded[k - 1]))
                   <= Len(coords(Heap, yielded[k]))

\* The heap of the next state.
HeapAfter == [parent |-> node_parent', children |-> node_children']

\* C16: swap(order) raises an exception whenever order is not a complete
\* index of the number of children of the node (a position omitted,
\* repeated or out of range), and reorders the children otherwise.
C16_SwapRejectsIncompleteIndex ==
    [][last' \in {"swap", "IndexError"} =>
          LET complete == /\ Len(arg') = Len(node_children[this'])
                          /\ isindex(arg')
          IN  complete <=> last' = "swap"]_vars

\* The children lists below t hold every node once and every node held has
\* its holder as parent.
consistent(h, t) ==
    \A n \in subtree(h, t) :
        \A k \in 1..Len(h.children[n]) :
            /\ h.parent[h.children[n][k]] = n
            /\ \A j \in 1..(k - 1) : h.children[n][j] # h.children[n][k]

\* C17: after building trees and after any sequence of swap, prune and
\* remove, every node held in the children list of a node has that node as
\* parent, hence the same root, and the root has no parent.
C17_ParentIsHolder ==
    \A n \in Objects(Heap) :
        \A k \in 1..Len(node_children[n]) :
            /\ node_parent[node_children[n][k]] = n
            /\ root(Heap, node_children[n][k]) = root(Heap, n)

\* C18: after t.prune(cond) on a tree whose root is t, the walk of t yields
\* no node that satisfies cond, except possibly t, and the list returned
\* holds, once each, the nodes of the tree before the call that satisfy
\* cond.
C18_PruneDetachesMatches ==
    [][(last' = "prune" /\ node_parent[this'] = None
            /\ consistent(Heap, this')) =>
          LET after == nodes_of(HeapAfter, this')
          IN  /\ after.raised = ""
              /\ \A k \in 1..Len(after.nodes) :
                     after.nodes[k] # this' => after.nodes[k] \notin arg'
              /\ { returned'[k] : k \in 1..Len(returned') }
                     = subtree(Heap, this') \cap arg'
              /\ \A j, k \in 1..Len(returned') :
                     j # k => returned'[j] # returned'[k]]_vars

C18_Witness ==
    /\ last = "prune"
    /\ steps = 1
    /\ this = 1
    /\ 1 \notin arg
    /\ Len(returned) = 2
    /\ node_parent[returned[1]] = returned[2]
    /\ Len(node_children[1]) = 1

\* C19: after x.remove() on a node x of a tree, with parent p, p does not
\* hold x, every former child of x has p as parent and is held by p, and the
\* other children of p are held by p in the order they were in.
C19_RemoveSplices ==
    [][(last' = "remove" /\ this' # 1 /\ consistent(Heap, 1)) =>
          LET x == this'
              p == node_parent[x]
              kids == node_children[x]
          IN  /\ p # None
              /\ \A k \in 1..Len(node_children'[p]) : node_children'[p][k] # x
              /\ \A k \in 1..Len(kids) :
                     /\ node_parent'[kids[k]] = p
                     /\ \E j \in 1..Len(node_children'[p]) :
                            node_children'[p][j] = kids[k]
              /\ SelectSeq(node_children'[p],
                           LAMBDA n : \E k \in 1..Len(node_children[p]) :
                                          node_children[p][k] = n)
                     = SelectSeq(node_children[p], LAMBDA n : n # x)]_vars

C19_Witness ==
    /\ last = "remove"
    /\ steps = 1
    /\ this = 2
    /\ node_children[1] = <<4, 3>>
    /\ node_parent[3] = 1
    /\ node_children[2] = <<3>>

\* C20: Permutation(l) for a list l in which some integer of 0..len(l)-1
\* does not occur exactly once, and Permutation(n) for n that is not an int,
\* a list or a Permutation, raise an exception and build no object; the
\* other calls build one.
C20_ConstructorRejects ==
    last # "init" =>
        LET rejected ==
                \/ arg.type \notin {"int", "list", "Permutation"}
                \/ /\ arg.type = "list"
                   /\ \E v \in 0..(Len(arg.value) - 1) :
                          Cardinality({ k \in 1..Len(arg.value) :
                                            arg.value[k] = v }) # 1
        IN  IF rejected
            THEN /\ last \in {"ValueError", "TypeError"}
                 /\ elements = <<>>
                 /\ max_id = None
            ELSE /\ last = "Permutation"
                 /\ max_id = factorial(Len(elements))

C20_Witness ==
    /\ last = "ValueError"
    /\ arg.type = "list"
    /\ arg.value = <<0, 2, 2>>
    /\ max_id = None

\* C21: a call of the TreePermutation constructor with a number of elements
\* that is not the number of leaves of the tree raises an exception, builds
\* no object and leaves the tree, with the permutation_index and
\* grouped_children of every node, as it was before the call.
C21_FailedConstructionKeepsTags ==
    [][LET given == IF arg'.type = "none" THEN count(LeafIterator(tree))
                    ELSE IF arg'.type = "int" THEN arg'.value[1]
                    ELSE Len(arg'.value)
       IN  given # count(LeafIterator(tree)) =>
               /\ last' = "ValueError"
               /\ max_id' = None
               /\ tree' = tree]_vars

C21_Witness ==
    /\ last = "ValueError"
    /\ arg.type = "list"
    /\ arg.value = <<1, 0>>
    /\ Len(tree.children) = 3
    /\ tree.grouped_children = <<<<0, 1, 2>>>>
    /\ tree.children[1].permutation_index = 2

\* C22: connect_children called with k >= 1 nodes, as separate arguments or
\* as one list, appends the k nodes in the given order to the children of
\* the node and makes the node the parent of each.
C22_ConnectChildrenAppendsAll ==
    [][(/\ arg'.form \in {"arguments", "list"}
        /\ Len(arg'.items) >= 1
        /\ \A k \in 1..Len(arg'.items) : arg'.items[k] # NotATree) =>
          /\ last' = "connect_children"
          /\ node_children'[this'] = node_children[this'] \o arg'.items
          /\ \A k \in 1..Len(arg'.items) :
                 node_parent'[arg'.items[k]] = this']_vars

\* C23: connect_children raises an exception when one of its arguments, or
\* one element of its list argument, is not a node, and connect_parent
\* raises an exception when its argument is not a node.
C23_ConnectRejectsNonNodes ==
    [][(\E k \in 1..Len(arg'.items) : arg'.items[k] = NotATree) =>
          last' \in {"ValueError", "IndexError"}]_vars

\* C24: q built by p.copy(), by Permutation(p) or from the list p was built
\* from has the elements of p right after its construction, and q.shuffle()
\* changes neither the elements of p nor the list of the caller.
C24_NoSharedElements ==
    [][/\ last' \in {"copy", "Permutation(p)", "Permutation(l)"} =>
              lists'[refs'.q] = lists'[refs'.p]
       /\ last' = "shuffle" =>
              /\ lists'[refs.p] = lists[refs.p]
              /\ refs.l # None => lists'[refs.l] = lists[refs.l]]_vars

\* The largest number of children references between x and a leaf below x.
RECURSIVE height(_, _)
height(h, x) ==
    IF h.children[x] = <<>> THEN 0
    ELSE 1 + Max({ height(h, h.children[x][k]) :
                       k \in 1..Len(h.children[x]) })

\* C25: x.max_depth(), for the root and for every other node x, is the
\* largest distance from x to a leaf of the subtree of x.
C25_MaxDepthIsHeight ==
    last = "max_depth" => returned = height(Heap, this)

\* C26: for every TreePermutation x, x.is_canonical() is true exactly when
\* x.canonical() leaves the elements of x and the order of the children of
\* every node as they were.
C26_CanonicalFixedPoints ==
    [][last' = "canonical" =>
          (is_canonical(tree) <=> (elements' = elements /\ tree' = tree))]_vars

\* C27: the elements canonical() gives on x are the one canonical member of
\* the class of x: an outcome of shuffle_nodes() on x satisfies
\* is_canonical() exactly when its elements are those canonical() gives on
\* x.
C27_CanonicalIsUniqueInClass ==
    [][last' = "shuffle_nodes" =>
          (is_canonical(tree') <=>
               elements' = update_elements(canonical_nodes(tree)))]_vars

\* C28: canonical() and shuffle_nodes() do not change the shape of the
\* tree: the node at every coordinate path has the arity it had before the
\* call.
C28_ShapeIsKept ==
    [][last' \in {"canonical", "shuffle_nodes"} =>
          shape(tree') = shape(tree)]_vars

\* Every node of h whose parent is set is held exactly once by that parent.
linked(h) ==
    \A n \in Objects(h) :
        h.parent[n] # None =>
            Cardinality({ k \in 1..Len(h.children[h.parent[n]]) :
                              h.children[h.parent[n]][k] = n }) = 1

\* C29: connect_children, connect_parent, prune and remove keep the parent
\* and children references consistent: if before the call every node whose
\* parent is set is held exactly once by that parent, the same is true
\* after it, and TreeIterator walks every node prune or remove returned.
C29_LinksStayConsistent ==
    [][(/\ linked(Heap)
        /\ last' \in {"connect_children", "connect_parent", "prune",
                      "remove"}) =>
          /\ linked(HeapAfter)
          /\ last' = "remove" => nodes_of(HeapAfter, returned').raised = ""
          /\ last' = "prune" =>
                 \A k \in 1..Len(returned') :
                     nodes_of(HeapAfter, returned'[k]).raised = ""]_vars

\* The leaves the walk of t yields, in order.
leaves_of(h, t) ==
    SelectSeq(nodes_of(h, t).nodes, LAMBDA n : Len(h.children[n]) = 0)

\* C30: x.remove() on a node x that is not the root and has a child keeps
\* the order of the leaves: the walk of the root yields the same leaves in
\* the same order before and after the call.
C30_RemoveKeepsLeafOrder ==
    [][(/\ last' = "remove"
        /\ this' # 1
        /\ consistent(Heap, 1)
        /\ Len(node_children[this']) >= 1) =>
          leaves_of(HeapAfter, 1) = leaves_of(Heap, 1)]_vars

====
